---- MODULE Spec2Model ----
(***************************************************************************)
(* Model of clone_client_env/clone_env.py: the CloneEnv orchestrator, its  *)
(* command queue (mp.Queue(maxsize=1)), its observation lock (mp.Lock()),  *)
(* the shared observation buffer, and the two worker processes it starts.  *)
(*                                                                         *)
(* The orchestrator is one sequential caller.  Its call stack is the       *)
(* variable `stack`: a frame per active method, the last frame executing.  *)
(* CommWorker and CtrlWorker are imported from clone_client_env.comm_worker *)
(* and clone_client_env.ctrl_worker; their steps follow the worker contract *)
(* (sections 4.2 and 4.3 of the specification).                            *)
(***************************************************************************)
EXTENDS Integers, Sequences, FiniteSets, TLC

\* ---------------------------------------------------------------- bounds
\* connect() replaces the handle of a working worker at most MaxLeaked times.
MaxLeaked == 1

\* ------------------------------------------------------------- constants
\* FULL_LOOSE_TIME = 0.5 s; the clock is counted in ticks of 500 ms.
FULL_LOOSE_TIME == 1

\* variant: a queue of two slots
QueueMaxSizeTwo == 1 + 1
\* mp.Queue(maxsize=1)
QueueMaxSize == 1

\* ---------------------------------------------------------------- inputs
MuscleCounts == {1, 2}                 \* client.number_of_muscles
Readings == {1}                        \* contraction readings of the hardware
ActionInputs == {<<-1>>}               \* arguments a caller passes to step
Periods == {0, 2}                      \* arguments a caller passes to keep_step as period, in ticks
TimedPeriods == {2}                    \* arguments a caller passes to loose_all and reset as period
CommCauses == {"HwError"}              \* failures the comm worker can capture
CtrlCauses == {"ActuationError"}       \* failures the ctrl worker can capture

NoException == "None"                  \* worker.exception is None

VARIABLES
    no_actions,      \* self.no_actions
    comm_worker,     \* self._comm_worker: the CommWorker process ("none": None)
    ctrl_worker,     \* self._ctrl_worker: the CtrlWorker process ("none": None)
    actions_queue,   \* self._actions_queue: the unconsumed action vectors
    obs_lock,        \* self._obs_lock: "free", or who holds it
    current_obs,     \* self._current_obs: the shared list the comm worker writes
    leaked_comm,     \* working comm workers whose handle connect() has replaced
    leaked_ctrl,     \* working ctrl workers whose handle connect() has replaced
    queue_rlock,     \* the reader lock of self._actions_queue: "free", or who holds it
    stack,           \* the orchestrator's call stack
    outcome,         \* how the caller's last call ended (history)
    hist             \* what the call in progress has done so far (history)

vars == <<no_actions, comm_worker, ctrl_worker, actions_queue, obs_lock, current_obs,
          leaked_comm, leaked_ctrl, queue_rlock, stack, outcome, hist>>

shared == <<no_actions, comm_worker, ctrl_worker, actions_queue, obs_lock, current_obs,
            leaked_comm, leaked_ctrl, queue_rlock>>

\* --------------------------------------------------------------- helpers
Zeros(n) == [i \in 1..n |-> 0]         \* [0.0] * n
AllLoose(n) == [i \in 1..n |-> -1]     \* numpy.zeros(n) - 1

\* a frame of the call stack: the method, where it stands, and its locals.
\* elapsed is time.time() - start, the only use keep_step makes of the clock:
\* start is read by the first statement of keep_step, so a keep_step frame
\* begins at its loop test with elapsed = 0.
Frame(fn, pc) ==
    [fn |-> fn, pc |-> pc, actions |-> <<>>, given |-> FALSE, period |-> 0,
     elapsed |-> 0, copy |-> <<>>]

NoOutcome(fn) == [fn |-> fn, kind |-> "none", err |-> "", cause |-> ""]
NoHist == [connected |-> FALSE, force_closes |-> 0, stops |-> 0, stepped |-> FALSE]

Top == stack[Len(stack)]
Idle == stack = <<>>
At(fn, pc) == ~Idle /\ Top.fn = fn /\ Top.pc = pc
SetPc(pc) == [stack EXCEPT ![Len(stack)].pc = pc]
Pop == SubSeq(stack, 1, Len(stack) - 1)

\* OrchestratorState: Unconnected while the handles are None, Connected while
\* the workers connect() started are not terminated, Closed once they are
Unconnected == comm_worker.state = "none"
Connected == comm_worker.state = "running" /\ ctrl_worker.state = "running"
Closed == comm_worker.state = "terminated" /\ ctrl_worker.state = "terminated"

\* the caller invokes a public method: a new call stack, the frame of the
\* method first
Invoke(frames) ==
    /\ Idle
    /\ stack' = frames
    /\ outcome' = NoOutcome(frames[1].fn)
    /\ hist' = [NoHist EXCEPT !.connected = Connected]

\* the executing frame calls f and will resume at `resume`
Call(resume, f) == stack' = Append(SetPc(resume), f)

\* a frame that stands after its last statement: loose_all after its
\* keep_step (line 138), reset after its get_obs (line 163)
Finished(f) == f.pc \in {"la_ret", "rs_ret"}

\* the call stack s once every frame that has nothing left to do has returned
RECURSIVE Unwind(_)
Unwind(s) ==
    IF s # <<>> /\ Finished(s[Len(s)]) THEN Unwind(SubSeq(s, 1, Len(s) - 1)) ELSE s

\* the executing frame returns, and with it every caller that ends with this call
Return ==
    /\ stack' = Unwind(Pop)
    /\ outcome' = IF Unwind(Pop) = <<>> THEN [outcome EXCEPT !.kind = "returned"]
                  ELSE outcome

\* the executing frame raises; no method catches, so the whole call ends
Raise(err, cause) ==
    /\ stack' = <<>>
    /\ outcome' = [outcome EXCEPT !.kind = "raised", !.err = err, !.cause = cause]

\* a worker process: its lifecycle state ("none": no handle, "not_started",
\* "running", "terminated") and its fault slot; a comm worker also
\* has the length of the list it was given, the items written in this cycle,
\* and whether the list it was given is still self._current_obs (own)
NoComm ==
    [state |-> "none", exception |-> NoException, len |-> 0, widx |-> 0, own |-> TRUE]
NoCtrl == [state |-> "none", exception |-> NoException]

\* ----------------------------------------------------------------- state
Init ==
    /\ no_actions = 0
    /\ comm_worker = NoComm
    /\ ctrl_worker = NoCtrl
    /\ actions_queue = <<>>
    /\ obs_lock = "free"
    /\ current_obs = <<>>
    /\ leaked_comm = 0
    /\ leaked_ctrl = 0
    /\ queue_rlock = "free"
    /\ stack = <<>>
    /\ outcome = NoOutcome("")
    /\ hist = NoHist

\* ------------------------------------------------------------ accessors
\* CloneEnv.comm_worker / CloneEnv.ctrl_worker raise when the handle is None
NotInitialized(worker) == worker.state = "none"

\* a running worker that has captured no fault
Working(worker) == worker.state = "running" /\ worker.exception = NoException

\* both start() calls of the last connect() that created workers returned
Started ==
    /\ comm_worker.state \in {"running", "terminated"}
    /\ ctrl_worker.state \in {"running", "terminated"}

\* ---------------------------------------------------------- force_close
\* Process.terminate() raises AttributeError on a process that was never
\* started: force_close stops at the first such handle
ForceCloseFails ==
    comm_worker.state = "not_started" \/ ctrl_worker.state = "not_started"

\* variant: only the comm worker is terminated
force_close_comm_only ==
    /\ comm_worker' = [comm_worker EXCEPT !.state = "terminated"]
    /\ ctrl_worker' = ctrl_worker
\* self.comm_worker.terminate(); self.ctrl_worker.terminate().  A terminated
\* process keeps what it held: neither mp.Lock nor the queue's reader lock is
\* released on its behalf.
force_close ==
    /\ comm_worker' = IF comm_worker.state = "not_started" THEN comm_worker
                      ELSE [comm_worker EXCEPT !.state = "terminated"]
    /\ ctrl_worker' = IF ForceCloseFails THEN ctrl_worker
                      ELSE [ctrl_worker EXCEPT !.state = "terminated"]

\* the caller invokes force_close()
ForceClose ==
    /\ Idle
    /\ IF NotInitialized(comm_worker)
       THEN /\ outcome' = [NoOutcome("force_close") EXCEPT
                              !.kind = "raised", !.err = "NotConnected"]
            /\ hist' = NoHist
            /\ UNCHANGED <<comm_worker, ctrl_worker>>
       ELSE /\ force_close
            /\ outcome' = IF ForceCloseFails
                          THEN [NoOutcome("force_close") EXCEPT
                                   !.kind = "raised", !.err = "AttributeError"]
                          ELSE [NoOutcome("force_close") EXCEPT !.kind = "returned"]
            /\ hist' = [NoHist EXCEPT !.force_closes = 1]
    /\ UNCHANGED <<no_actions, actions_queue, obs_lock, current_obs, leaked_comm,
                   leaked_ctrl, queue_rlock, stack>>

\* variant: the fault slot is looked at only while the comm worker is running
FaultCheckOnlyAlive(Otherwise) ==
    IF NotInitialized(comm_worker)
    THEN /\ Raise("NotConnected", "")
         /\ UNCHANGED <<comm_worker, ctrl_worker, hist>>
    ELSE IF comm_worker.state = "running" /\ comm_worker.exception # NoException
    THEN /\ force_close
         /\ hist' = [hist EXCEPT !.force_closes = @ + 1]
         /\ IF ForceCloseFails
            THEN Raise("AttributeError", "")
            ELSE Raise("Fault", comm_worker.exception)
    ELSE /\ Otherwise
         /\ UNCHANGED <<comm_worker, ctrl_worker, hist>>
\* variant: the fault is raised without force_close
FaultCheckWithoutForceClose(Otherwise) ==
    IF NotInitialized(comm_worker)
    THEN /\ Raise("NotConnected", "")
         /\ UNCHANGED <<comm_worker, ctrl_worker, hist>>
    ELSE IF comm_worker.exception # NoException
    THEN /\ Raise("Fault", comm_worker.exception)
         /\ UNCHANGED <<comm_worker, ctrl_worker, hist>>
    ELSE /\ Otherwise
         /\ UNCHANGED <<comm_worker, ctrl_worker, hist>>
\* the fault check that get_obs and step share: the accessor, the fault slot,
\* force_close and the raise; Otherwise when the slot is empty
FaultCheck(Otherwise) ==
    IF NotInitialized(comm_worker)
    THEN /\ Raise("NotConnected", "")
         /\ UNCHANGED <<comm_worker, ctrl_worker, hist>>
    ELSE IF comm_worker.exception # NoException
    THEN /\ force_close
         /\ hist' = [hist EXCEPT !.force_closes = @ + 1]
         /\ IF ForceCloseFails
            THEN Raise("AttributeError", "")
            ELSE Raise("Fault", comm_worker.exception)
    ELSE /\ Otherwise
         /\ UNCHANGED <<comm_worker, ctrl_worker, hist>>

\* -------------------------------------------------------------- connect
\* the observation lock once connect() has replaced the comm worker's handle:
\* a lock the old worker holds stays held, by a leaked worker or by a dead one
LockAfterConnect ==
    IF obs_lock # "comm" THEN obs_lock
    ELSE IF comm_worker.state = "running" THEN "leaked" ELSE "dead"

\* the queue's reader lock once connect() has replaced the ctrl worker's handle
RLockAfterConnect ==
    IF queue_rlock # "ctrl" THEN queue_rlock
    ELSE IF ctrl_worker.state = "running" THEN "leaked" ELSE "dead"

\* the caller invokes connect()
CallConnect ==
    /\ leaked_comm + (IF Working(comm_worker) THEN 1 ELSE 0) <= MaxLeaked
    /\ leaked_ctrl + (IF Working(ctrl_worker) THEN 1 ELSE 0) <= MaxLeaked
    /\ Invoke(<<Frame("connect", "cn_client")>>)
    /\ UNCHANGED shared

\* lines 95-96: the hardware client connects, or fails to; the muscle count it
\* reports is stored
ConnectClient ==
    /\ At("connect", "cn_client")
    /\ \E n \in MuscleCounts, ok \in BOOLEAN :
         IF ok
         THEN /\ no_actions' = n
              /\ stack' = SetPc("cn_handshake")
              /\ outcome' = outcome
         ELSE /\ no_actions' = no_actions
              /\ Raise("ClientError", "")
    /\ UNCHANGED <<comm_worker, ctrl_worker, actions_queue, obs_lock, current_obs,
                   leaked_comm, leaked_ctrl, queue_rlock, hist>>

\* lines 97-98: start_pressuregen and wait_for_desired_pressure complete, or
\* one of them fails
ConnectHandshake ==
    /\ At("connect", "cn_handshake")
    /\ \E ok \in BOOLEAN :
         IF ok
         THEN stack' = SetPc("cn_alloc") /\ outcome' = outcome
         ELSE Raise("ClientError", "")
    /\ UNCHANGED <<shared, hist>>

\* line 103: mp.Manager() starts a manager process, which may fail; the new
\* zero-filled list replaces self._current_obs, and the worker behind the
\* handle keeps the list it was given
ConnectAlloc ==
    /\ At("connect", "cn_alloc")
    /\ \E ok \in BOOLEAN :
         IF ok
         THEN /\ current_obs' = Zeros(no_actions)
              /\ comm_worker' = IF NotInitialized(comm_worker) THEN comm_worker
                                ELSE [comm_worker EXCEPT !.own = FALSE]
              /\ stack' = SetPc("cn_create")
              /\ outcome' = outcome
         ELSE /\ UNCHANGED <<current_obs, comm_worker>>
              /\ Raise("StartError", "")
    /\ UNCHANGED <<no_actions, ctrl_worker, actions_queue, obs_lock, leaked_comm,
                   leaked_ctrl, queue_rlock, hist>>

\* lines 104-119: the second mp.Manager() may fail as the first; then both
\* worker objects are created, not yet started, on the lock, the queue and
\* the new list; the old handles are dropped and their processes, if working,
\* keep working
ConnectCreate ==
    /\ At("connect", "cn_create")
    /\ \E ok \in BOOLEAN :
         IF ok
         THEN /\ leaked_comm' = leaked_comm + (IF Working(comm_worker) THEN 1 ELSE 0)
              /\ leaked_ctrl' = leaked_ctrl + (IF Working(ctrl_worker) THEN 1 ELSE 0)
              /\ obs_lock' = LockAfterConnect
              /\ queue_rlock' = RLockAfterConnect
              /\ comm_worker' = [NoComm EXCEPT !.state = "not_started", !.len = no_actions]
              /\ ctrl_worker' = [NoCtrl EXCEPT !.state = "not_started"]
              /\ stack' = SetPc("cn_start_comm")
              /\ outcome' = outcome
         ELSE /\ UNCHANGED <<leaked_comm, leaked_ctrl, obs_lock, queue_rlock,
                             comm_worker, ctrl_worker>>
              /\ Raise("StartError", "")
    /\ UNCHANGED <<no_actions, actions_queue, current_obs, hist>>

\* line 121: self.comm_worker.start(), which may fail to create the process
ConnectStartComm ==
    /\ At("connect", "cn_start_comm")
    /\ \E ok \in BOOLEAN :
         IF ok
         THEN /\ comm_worker' = [comm_worker EXCEPT !.state = "running"]
              /\ stack' = SetPc("cn_start_ctrl")
              /\ outcome' = outcome
         ELSE /\ comm_worker' = comm_worker
              /\ Raise("StartError", "")
    /\ UNCHANGED <<no_actions, ctrl_worker, actions_queue, obs_lock, current_obs,
                   leaked_comm, leaked_ctrl, queue_rlock, hist>>

\* line 122: self.ctrl_worker.start(), which may fail to create the process
ConnectStartCtrl ==
    /\ At("connect", "cn_start_ctrl")
    /\ \E ok \in BOOLEAN :
         IF ok
         THEN /\ ctrl_worker' = [ctrl_worker EXCEPT !.state = "running"]
              /\ Return
         ELSE /\ ctrl_worker' = ctrl_worker
              /\ Raise("StartError", "")
    /\ UNCHANGED <<no_actions, comm_worker, actions_queue, obs_lock, current_obs,
                   leaked_comm, leaked_ctrl, queue_rlock, hist>>

\* -------------------------------------------------------------- get_obs
CallGetObs ==
    /\ Invoke(<<Frame("get_obs", "go_check")>>)
    /\ UNCHANGED shared

\* lines 68-71
GetObsCheck ==
    /\ At("get_obs", "go_check")
    /\ FaultCheck(stack' = SetPc("go_lock") /\ outcome' = outcome)
    /\ UNCHANGED <<no_actions, actions_queue, obs_lock, current_obs, leaked_comm,
                   leaked_ctrl, queue_rlock>>

\* variant: the list is read without waiting for the lock
GetObsAcquireNoWait ==
    /\ At("get_obs", "go_lock")
    /\ stack' = SetPc("go_read")
    /\ UNCHANGED <<shared, outcome, hist>>
\* line 73: with self._obs_lock (blocks while the lock is held)
GetObsAcquire ==
    /\ At("get_obs", "go_lock")
    /\ obs_lock = "free"
    /\ obs_lock' = "env"
    /\ stack' = SetPc("go_read")
    /\ UNCHANGED <<no_actions, comm_worker, ctrl_worker, actions_queue, current_obs,
                   leaked_comm, leaked_ctrl, queue_rlock, outcome, hist>>

\* variant: the copy is returned with the lock still held
GetObsReadKeepsLock ==
    /\ At("get_obs", "go_read")
    /\ LET buf == current_obs
           k == Len(Top.copy) IN
         IF k < Len(buf)
         THEN /\ stack' = [stack EXCEPT ![Len(stack)].copy = Append(@, buf[k + 1])]
              /\ UNCHANGED outcome
         ELSE Return
    /\ UNCHANGED <<shared, hist>>
\* line 74: numpy.array(self._current_obs) reads the shared list item by item;
\* with every item read, the lock is released and the copy returned
GetObsRead ==
    /\ At("get_obs", "go_read")
    /\ LET buf == current_obs
           k == Len(Top.copy) IN
         IF k < Len(buf)
         THEN /\ stack' = [stack EXCEPT ![Len(stack)].copy = Append(@, buf[k + 1])]
              /\ UNCHANGED <<obs_lock, outcome>>
         ELSE /\ obs_lock' = "free"
              /\ Return
    /\ UNCHANGED <<no_actions, comm_worker, ctrl_worker, actions_queue, current_obs,
                   leaked_comm, leaked_ctrl, queue_rlock, hist>>

\* ----------------------------------------------------------------- step
CallStep ==
    /\ \E a \in ActionInputs :
         Invoke(<<[Frame("step", "st_put") EXCEPT !.actions = a]>>)
    /\ UNCHANGED shared

\* line 87: self._actions_queue.put(actions) (blocks while the queue is full)
StepPut ==
    /\ At("step", "st_put")
    /\ Len(actions_queue) < QueueMaxSize
    /\ actions_queue' = Append(actions_queue, Top.actions)
    /\ stack' = SetPc("st_check")
    /\ UNCHANGED <<no_actions, comm_worker, ctrl_worker, obs_lock, current_obs,
                   leaked_comm, leaked_ctrl, queue_rlock, outcome, hist>>

\* lines 89-92
StepCheck ==
    /\ At("step", "st_check")
    /\ FaultCheck(Return)
    /\ UNCHANGED <<no_actions, actions_queue, obs_lock, current_obs, leaked_comm,
                   leaked_ctrl, queue_rlock>>

\* ------------------------------------------------------------ keep_step
\* line 131: keep_step(actions, period) reads its start and stands at its loop
\* test
keep_step(a, p) ==
    <<[Frame("keep_step", "ks_test") EXCEPT !.actions = a, !.period = p]>>

CallKeepStep ==
    /\ \E a \in ActionInputs, p \in Periods : Invoke(keep_step(a, p))
    /\ UNCHANGED shared

\* variant: a loop that runs its body before its first test
KeepStepAgainAtLeastOnce == ~hist.stepped \/ Top.elapsed < Top.period
\* line 132: time.time() - start < period
KeepStepAgain == Top.elapsed < Top.period

\* lines 132-133: the loop test, then step(actions) or the return
KeepStepTest ==
    /\ At("keep_step", "ks_test")
    /\ IF KeepStepAgain
       THEN /\ Call("ks_test", [Frame("step", "st_put") EXCEPT !.actions = Top.actions])
            /\ hist' = [hist EXCEPT !.stepped = TRUE]
            /\ outcome' = outcome
       ELSE /\ Return
            /\ hist' = hist
    /\ UNCHANGED shared

\* ------------------------------------------------------------ loose_all
\* lines 137-138: loose_all(period) builds the all-loose vector from
\* self.no_actions and calls keep_step with it, its last statement
loose_all(p) ==
    <<[Frame("loose_all", "la_ret") EXCEPT !.period = p]>>
        \o keep_step(AllLoose(no_actions), p)

CallLooseAll ==
    /\ \E p \in TimedPeriods : Invoke(loose_all(p))
    /\ UNCHANGED shared

\* ---------------------------------------------------------------- reset
\* lines 158-161: reset(actions, period) calls loose_all() without the period,
\* or keep_step(actions, period); get_obs() is still to come
reset(given, a, p) ==
    <<[Frame("reset", "rs_obs") EXCEPT
          !.given = given, !.actions = IF given THEN a ELSE <<>>, !.period = p]>>
        \o (IF ~given THEN loose_all(FULL_LOOSE_TIME) ELSE keep_step(a, p))

CallReset ==
    /\ \E given \in BOOLEAN, a \in ActionInputs, p \in TimedPeriods :
         Invoke(reset(given, a, p))
    /\ UNCHANGED shared

\* line 163: self.get_obs(), reset's last statement
ResetGetObs ==
    /\ At("reset", "rs_obs")
    /\ Call("rs_ret", Frame("get_obs", "go_check"))
    /\ UNCHANGED <<shared, outcome, hist>>

\* ---------------------------------------------------------------- close
\* line 142: close() calls reset(); the handshake and force_close are still to
\* come
close == <<Frame("close", "cl_stop")>> \o reset(FALSE, <<>>, FULL_LOOSE_TIME)

CallClose ==
    /\ Invoke(close)
    /\ UNCHANGED shared

\* lines 143-144: the stop-pressure-generation handshake, which may fail
CloseStop ==
    /\ At("close", "cl_stop")
    /\ \E ok \in BOOLEAN :
         IF ok
         THEN stack' = SetPc("cl_force") /\ outcome' = outcome
         ELSE Raise("ClientError", "")
    /\ hist' = [hist EXCEPT !.stops = @ + 1]
    /\ UNCHANGED shared

\* line 146: self.force_close()
CloseForce ==
    /\ At("close", "cl_force")
    /\ force_close
    /\ hist' = [hist EXCEPT !.force_closes = @ + 1]
    /\ IF ForceCloseFails THEN Raise("AttributeError", "") ELSE Return
    /\ UNCHANGED <<no_actions, actions_queue, obs_lock, current_obs, leaked_comm,
                   leaked_ctrl, queue_rlock>>

\* ---------------------------------------------------------- comm worker
\* the worker takes the lock to write the readings it polled
CommAcquire ==
    /\ Working(comm_worker)
    /\ obs_lock = "free"
    /\ obs_lock' = "comm"
    /\ UNCHANGED <<no_actions, comm_worker, ctrl_worker, actions_queue, current_obs,
                   leaked_comm, leaked_ctrl, queue_rlock, stack, outcome, hist>>

\* holding the lock, the worker writes the next item of the list it was given;
\* one poll writes the same reading to every item.  Once line 103 has replaced
\* self._current_obs, the list this worker has is no longer the one get_obs
\* reads.
CommWrite ==
    /\ Working(comm_worker)
    /\ obs_lock = "comm"
    /\ comm_worker.widx < comm_worker.len
    /\ IF ~comm_worker.own
       THEN current_obs' = current_obs
       ELSE LET i == comm_worker.widx + 1 IN
              \E r \in (IF i = 1 THEN Readings ELSE {current_obs[1]}) :
                  current_obs' = [current_obs EXCEPT ![i] = r]
    /\ comm_worker' = [comm_worker EXCEPT !.widx = @ + 1]
    /\ UNCHANGED <<no_actions, ctrl_worker, actions_queue, obs_lock, leaked_comm,
                   leaked_ctrl, queue_rlock, stack, outcome, hist>>

\* with every item written, the worker releases the lock
CommRelease ==
    /\ Working(comm_worker)
    /\ obs_lock = "comm"
    /\ comm_worker.widx = comm_worker.len
    /\ obs_lock' = "free"
    /\ comm_worker' = [comm_worker EXCEPT !.widx = 0]
    /\ UNCHANGED <<no_actions, ctrl_worker, actions_queue, current_obs, leaked_comm,
                   leaked_ctrl, queue_rlock, stack, outcome, hist>>

\* between two writes, the worker captures a failure into its fault slot and
\* stops working
CommFault ==
    /\ Working(comm_worker)
    /\ obs_lock # "comm"
    /\ \E c \in CommCauses : comm_worker' = [comm_worker EXCEPT !.exception = c]
    /\ UNCHANGED <<no_actions, ctrl_worker, actions_queue, obs_lock, current_obs,
                   leaked_comm, leaked_ctrl, queue_rlock, stack, outcome, hist>>

\* ---------------------------------------------------------- ctrl worker
\* Queue.get() takes the queue's reader lock and waits, holding it, for an
\* action.  The worker finds the queue empty and blocks in get()
CtrlBlock ==
    /\ Working(ctrl_worker)
    /\ queue_rlock = "free"
    /\ actions_queue = <<>>
    /\ queue_rlock' = "ctrl"
    /\ UNCHANGED <<no_actions, comm_worker, ctrl_worker, actions_queue, obs_lock,
                   current_obs, leaked_comm, leaked_ctrl, stack, outcome, hist>>

\* the worker receives the head of the command queue and forwards it: its
\* get() finds an action, or the get() it is blocked in is handed one
CtrlReceive ==
    /\ Working(ctrl_worker)
    /\ queue_rlock \in {"free", "ctrl"}
    /\ actions_queue # <<>>
    /\ actions_queue' = Tail(actions_queue)
    /\ queue_rlock' = "free"
    /\ UNCHANGED <<no_actions, comm_worker, ctrl_worker, obs_lock, current_obs,
                   leaked_comm, leaked_ctrl, stack, outcome, hist>>

\* outside get(), the worker captures a failure into its fault slot and stops
\* working
CtrlFault ==
    /\ Working(ctrl_worker)
    /\ queue_rlock # "ctrl"
    /\ \E c \in CtrlCauses : ctrl_worker' = [ctrl_worker EXCEPT !.exception = c]
    /\ UNCHANGED <<no_actions, comm_worker, actions_queue, obs_lock, current_obs,
                   leaked_comm, leaked_ctrl, queue_rlock, stack, outcome, hist>>

\* ------------------------------------------------------- leaked workers
\* A worker whose handle was replaced keeps running: nobody can terminate it
\* or read its fault slot.  A leaked comm worker goes on taking the lock to
\* write a list that nobody reads; a leaked ctrl worker goes on receiving from
\* the queue.  Either stops working when it captures a failure.
LeakedCommAcquire ==
    /\ leaked_comm > 0
    /\ obs_lock = "free"
    /\ obs_lock' = "leaked"
    /\ UNCHANGED <<no_actions, comm_worker, ctrl_worker, actions_queue, current_obs,
                   leaked_comm, leaked_ctrl, queue_rlock, stack, outcome, hist>>

LeakedCommRelease ==
    /\ obs_lock = "leaked"
    /\ obs_lock' = "free"
    /\ UNCHANGED <<no_actions, comm_worker, ctrl_worker, actions_queue, current_obs,
                   leaked_comm, leaked_ctrl, queue_rlock, stack, outcome, hist>>

LeakedCommFault ==
    /\ leaked_comm > (IF obs_lock = "leaked" THEN 1 ELSE 0)
    /\ leaked_comm' = leaked_comm - 1
    /\ UNCHANGED <<no_actions, comm_worker, ctrl_worker, actions_queue, obs_lock,
                   current_obs, leaked_ctrl, queue_rlock, stack, outcome, hist>>

LeakedCtrlBlock ==
    /\ leaked_ctrl > 0
    /\ queue_rlock = "free"
    /\ actions_queue = <<>>
    /\ queue_rlock' = "leaked"
    /\ UNCHANGED <<no_actions, comm_worker, ctrl_worker, actions_queue, obs_lock,
                   current_obs, leaked_comm, leaked_ctrl, stack, outcome, hist>>

LeakedCtrlReceive ==
    /\ leaked_ctrl > 0
    /\ queue_rlock \in {"free", "leaked"}
    /\ actions_queue # <<>>
    /\ actions_queue' = Tail(actions_queue)
    /\ queue_rlock' = "free"
    /\ UNCHANGED <<no_actions, comm_worker, ctrl_worker, obs_lock, current_obs,
                   leaked_comm, leaked_ctrl, stack, outcome, hist>>

LeakedCtrlFault ==
    /\ leaked_ctrl > (IF queue_rlock = "leaked" THEN 1 ELSE 0)
    /\ leaked_ctrl' = leaked_ctrl - 1
    /\ UNCHANGED <<no_actions, comm_worker, ctrl_worker, actions_queue, obs_lock,
                   current_obs, leaked_comm, queue_rlock, stack, outcome, hist>>

\* ---------------------------------------------------------------- clock
\* the keep_step frame on the stack, if any
Timing(i) ==
    /\ i \in 1..Len(stack)
    /\ stack[i].fn = "keep_step"

\* time passes.  Only keep_step reads the clock, and only to compare the time
\* since its start with its period: the time that passes before that deadline
\* is all that is modelled.
Tick ==
    /\ \E i \in 1..Len(stack) :
         /\ Timing(i)
         /\ stack[i].elapsed < stack[i].period
         /\ stack' = [stack EXCEPT ![i].elapsed = @ + 1]
    /\ UNCHANGED <<shared, outcome, hist>>

\* ------------------------------------------------------------------ spec
Orchestrator ==
    \/ CallConnect
    \/ ConnectClient
    \/ ConnectHandshake
    \/ ConnectAlloc
    \/ ConnectCreate
    \/ ConnectStartComm
    \/ ConnectStartCtrl
    \/ ForceClose
    \/ CallGetObs
    \/ GetObsCheck
    \/ GetObsAcquire
    \/ GetObsRead
    \/ CallStep
    \/ StepPut
    \/ StepCheck
    \/ CallKeepStep
    \/ KeepStepTest
    \/ CallLooseAll
    \/ CallReset
    \/ ResetGetObs
    \/ CallClose
    \/ CloseStop
    \/ CloseForce

Workers ==
    \/ CommAcquire
    \/ CommWrite
    \/ CommRelease
    \/ CommFault
    \/ CtrlBlock
    \/ CtrlReceive
    \/ CtrlFault
    \/ LeakedCommAcquire
    \/ LeakedCommRelease
    \/ LeakedCommFault
    \/ LeakedCtrlBlock
    \/ LeakedCtrlReceive
    \/ LeakedCtrlFault

Next == Orchestrator \/ Workers \/ Tick

Spec == Init /\ [][Next]_vars

\* the steps of a call in progress: a method that was invoked runs on
Running ==
    \/ ConnectClient
    \/ ConnectHandshake
    \/ ConnectAlloc
    \/ ConnectCreate
    \/ ConnectStartComm
    \/ ConnectStartCtrl
    \/ GetObsCheck
    \/ GetObsAcquire
    \/ GetObsRead
    \/ StepPut
    \/ StepCheck
    \/ KeepStepTest
    \/ ResetGetObs
    \/ CloseStop
    \/ CloseForce

\* Scheduling: the three processes run in parallel and time advances, so a
\* step that stays possible is taken; a lock that is free again and again is
\* acquired by each process that waits for it.  The caller need not call
\* anything, and no worker need fail.
Fairness ==
    /\ WF_vars(Running)
    /\ SF_vars(GetObsAcquire)
    /\ SF_vars(CommAcquire)
    /\ WF_vars(CommWrite)
    /\ WF_vars(CommRelease)
    /\ WF_vars(LeakedCommRelease)
    /\ WF_vars(CtrlReceive)
    /\ WF_vars(LeakedCtrlReceive)
    /\ WF_vars(Tick)

FairSpec == Spec /\ Fairness

\* ================================================================ claims

\* C1: when the comm worker's fault slot is set, on workers that connect()
\* has both started, the fault check of get_obs, and the fault check of step
\* that follows its completed push, raises the fault wrapping the captured
\* cause with both workers terminated; and a force_close() called once both
\* workers are terminated returns normally.
C1_FaultRaisedAndWorkersTerminated ==
    [][/\ ( /\ GetObsCheck \/ StepCheck
            /\ Started
            /\ comm_worker.exception # NoException )
          => /\ Idle'
             /\ outcome'.kind = "raised"
             /\ outcome'.err = "Fault"
             /\ outcome'.cause = comm_worker.exception
             /\ Closed'
       /\ (ForceClose /\ Closed) => (outcome'.kind = "returned" /\ Closed')
      ]_vars

\* C1 witness: a step() whose push completed raised the captured fault
C1_Witness ==
    /\ Idle
    /\ outcome.fn = "step"
    /\ outcome.err = "Fault"
    /\ outcome.cause \in CommCauses
    /\ actions_queue # <<>>
    /\ Closed

\* C2 (as claimed): while no connect() has succeeded, no step of a get_obs()
\* or step() call changes the command queue or the workers, and the call ends
\* by raising Not-Connected.
C2_NotConnectedHasNoSideEffects ==
    [][( /\ Unconnected
         /\ ~Idle
         /\ stack[1].fn \in {"get_obs", "step"} )
       => /\ actions_queue' = actions_queue
          /\ comm_worker' = comm_worker
          /\ ctrl_worker' = ctrl_worker
          /\ Idle' => outcome'.err = "NotConnected"
      ]_vars

\* C3: the command queue never holds more than one action vector, it grows
\* only from empty, and a step() standing at its push while the queue holds an
\* action is still standing there after any step of the system that leaves the
\* queue non-empty.
C3_SingleSlotBackpressure ==
    /\ Len(actions_queue) <= 1
    /\ [][/\ Len(actions_queue') <= 1
          /\ Len(actions_queue') > Len(actions_queue) => actions_queue = <<>>
          /\ (At("step", "st_put") /\ actions_queue # <<>>) => At("step", "st_put")'
         ]_vars

\* C3 witness: a step() blocked at its push, inside keep_step, behind an
\* unconsumed action
C3_Witness ==
    /\ At("step", "st_put")
    /\ Len(stack) > 1
    /\ Len(actions_queue) = 1

\* every item of v is the same reading
Uniform(v) == \A i, j \in 1..Len(v) : v[i] = v[j]

\* C4: get_obs reads the shared list only while it holds the lock, the comm
\* worker is in the middle of a write only while it holds the lock, and the
\* items get_obs has copied all come from one complete vector (a complete
\* write gives every item the same reading; the initial vector is all zero).
C4_SnapshotAtomic ==
    /\ At("get_obs", "go_read") => (obs_lock = "env" /\ Uniform(Top.copy))
    /\ comm_worker.widx > 0 => obs_lock = "comm"

\* C4 witness: get_obs has copied a two-item vector that the comm worker wrote
C4_Witness ==
    /\ At("get_obs", "go_read")
    /\ Top.copy = <<1, 1>>
    /\ Working(comm_worker)

\* C6 (as claimed): whenever a close() made in the Connected state completes,
\* by returning or by raising, both workers are terminated; and the
\* stop-pressure-generation handshake is not issued after a force_close of
\* the same close().
C6_CloseAlwaysTerminates ==
    /\ ( /\ Idle
         /\ outcome.fn = "close"
         /\ outcome.kind # "none"
         /\ hist.connected ) => Closed
    /\ At("close", "cl_stop") => hist.force_closes = 0

\* C7 (as claimed): a get_obs() or step() call made in the Closed state is
\* reported as an error: it does not return normally.
C7_ClosedCallsRaise ==
    ~( /\ Idle
       /\ Closed
       /\ outcome.fn \in {"get_obs", "step"}
       /\ outcome.kind = "returned" )

\* C9 (as claimed): a keep_step that returned normally has issued at least
\* one step call, for every period.
C9_AtLeastOneStep ==
    (Idle /\ outcome.fn = "keep_step" /\ outcome.kind = "returned") => hist.stepped

\* every step keep_step has called carries keep_step's actions, and a
\* keep_step with period <= 0 has called none
KeepStepFrames ==
    \A i \in 1..Len(stack) :
        /\ (stack[i].fn = "keep_step" /\ stack[i].period <= 0) => ~hist.stepped
        /\ (i > 1 /\ stack[i].fn = "step" /\ stack[i - 1].fn = "keep_step")
              => stack[i].actions = stack[i - 1].actions

\* C9 (amended): keep_step returns normally only when the elapsed time has
\* reached the period; every step it issues carries the given actions; each
\* loop test that reads an elapsed time below the period issues a step; and a
\* keep_step with period <= 0 issues no step at all.
C9_KeepStepContract ==
    /\ KeepStepFrames
    /\ [][/\ KeepStepFrames'
          /\ At("keep_step", "ks_test") =>
               /\ (Len(stack') < Len(stack) /\ outcome'.kind # "raised")
                     => Top.elapsed >= Top.period
               /\ (KeepStepTest /\ Top.elapsed < Top.period)
                     => (hist'.stepped /\ At("step", "st_put")')
         ]_vars

\* C9 witness: a keep_step with period <= 0 returned without a step call
C9_Witness ==
    /\ Idle
    /\ outcome.fn = "keep_step"
    /\ outcome.kind = "returned"
    /\ ~hist.stepped

\* C10: once a connect() has succeeded, every force_close() returns normally
\* and leaves both workers terminated, whatever their state was, and a
\* force_close() on terminated workers changes nothing that the previous
\* force_close() left.
C10_ForceCloseIdempotent ==
    [][(ForceClose /\ Started) =>
          /\ outcome'.kind = "returned"
          /\ Closed'
          /\ Closed => UNCHANGED shared
          /\ (outcome.fn = "force_close" /\ outcome.kind = "returned") => UNCHANGED vars
      ]_vars

\* C10 witness: force_close() returned with a faulted worker among the two it
\* terminated
C10_Witness ==
    /\ Idle
    /\ outcome.fn = "force_close"
    /\ outcome.kind = "returned"
    /\ ctrl_worker.exception # NoException
    /\ Closed

\* C5 (as claimed): a get_obs() that waits for the observation lock acquires
\* it, and so does a working comm worker, whoever was terminated holding it.
C5_LockIsRecovered ==
    /\ At("get_obs", "go_lock") ~> ~At("get_obs", "go_lock")
    /\ Working(comm_worker) ~> (obs_lock = "comm" \/ ~Working(comm_worker))

\* C8 (as claimed): every keep_step, loose_all, reset or close call made in
\* the Connected state completes.
C8_TimedCallsComplete ==
    ( /\ ~Idle
      /\ hist.connected
      /\ stack[1].fn \in {"keep_step", "loose_all", "reset", "close"} ) ~> Idle

\* C11 (as claimed): when the fault check of get_obs() or step() runs while the
\* ctrl worker's fault slot is set and the comm worker's is not, the call ends
\* there by raising the fault that wraps the ctrl worker's cause, and both
\* workers are terminated.
C11_CtrlFaultDetected ==
    [][( /\ GetObsCheck \/ StepCheck
         /\ ~NotInitialized(comm_worker)
         /\ ctrl_worker.exception # NoException
         /\ comm_worker.exception = NoException )
       => /\ Idle'
          /\ outcome'.kind = "raised"
          /\ outcome'.err = "Fault"
          /\ outcome'.cause = ctrl_worker.exception
          /\ Closed'
      ]_vars

\* C12 (as claimed): while the ctrl worker started by the last connect() is
\* working, an action vector leaves the command queue only by being received
\* by that worker.
C12_EveryActionReceived ==
    [][( /\ Working(ctrl_worker)
         /\ Len(actions_queue') < Len(actions_queue) )
       => CtrlReceive
      ]_vars

\* C13 (as claimed): on workers that connect() has started, the list that
\* get_obs() reads and returns has as many items as the muscle count read
\* during the connect() that started them.
C13_ObsLengthIsMuscleCount ==
    (Started /\ At("get_obs", "go_read")) => Len(current_obs) = comm_worker.len

\* C14 (as claimed): once a connect() has succeeded, every action vector that
\* a step() issued by loose_all has pushed onto the command queue is all -1
\* and as long as the muscle count read during that connect().
C14_LooseAllVector ==
    ( /\ ~Unconnected
      /\ At("step", "st_check")
      /\ Len(stack) >= 3
      /\ stack[Len(stack) - 2].fn = "loose_all" )
    => Top.actions = AllLoose(comm_worker.len)

\* C15 (as claimed): reset() without actions performs loose_all(period) with
\* the period reset() was passed.
C15_ResetPassesPeriod ==
    \A i \in 2..Len(stack) :
        (stack[i].fn = "loose_all" /\ stack[i - 1].fn = "reset")
        => stack[i].period = stack[i - 1].period

\* C16 (as claimed): once a connect() has succeeded, every action vector on
\* the command queue is as long as the muscle count read during that connect().
C16_QueuedLengthIsMuscleCount ==
    ~Unconnected =>
        \A i \in 1..Len(actions_queue) : Len(actions_queue[i]) = comm_worker.len

\* C17 (as claimed): the steps of connect() up to the end of the handshake
\* leave the worker handles, the processes and the observation list as they
\* were, whether the handshake succeeds or fails; the orchestrator leaves
\* Unconnected only where connect() creates the workers, after the handshake;
\* and once a connect() has stored the muscle count and failed with the
\* orchestrator still Unconnected, every get_obs() or step() call that follows
\* ends by raising Not-Connected.
C17_WorkersOnlyAfterHandshake ==
    /\ Unconnected
    /\ [][/\ (ConnectClient \/ ConnectHandshake)
             => UNCHANGED <<comm_worker, ctrl_worker, leaked_comm, leaked_ctrl, current_obs>>
          /\ (Unconnected /\ ~Unconnected') => ConnectCreate
         ]_vars
    /\ ( /\ Unconnected
         /\ no_actions # 0
         /\ ~Idle
         /\ stack[1].fn \in {"get_obs", "step"} )
       ~> ( /\ Idle
            /\ outcome.fn \in {"get_obs", "step"}
            /\ outcome.kind = "raised"
            /\ outcome.err = "NotConnected" )

\* C18 (as claimed): when a connect() has returned and no call has been made
\* since, the command queue holds no action vector: nothing pushed before the
\* connect() is left for the ctrl worker it started.
C18_NoStaleAction ==
    (Idle /\ outcome.fn = "connect" /\ outcome.kind = "returned")
    => actions_queue = <<>>

\* C19: the comm worker's fault slot, once set, stays as it is until
\* connect() replaces the worker; and whenever the fault check of get_obs()
\* finds it set, on workers that connect() has both started, the call ends
\* there: force_close has run once more, both workers are terminated, the
\* wrapped fault is raised, and the observation lock is as it was.
C19_CommFaultSticky ==
    [][/\ (comm_worker.exception # NoException /\ ~ConnectCreate)
          => comm_worker'.exception = comm_worker.exception
       /\ (GetObsCheck /\ Started /\ comm_worker.exception # NoException)
          => /\ Idle'
             /\ outcome'.kind = "raised"
             /\ outcome'.err = "Fault"
             /\ outcome'.cause = comm_worker.exception
             /\ hist'.force_closes = hist.force_closes + 1
             /\ Closed'
             /\ obs_lock' = obs_lock
      ]_vars

\* C19 witness: a get_obs() called when an earlier call had already detected
\* the fault and terminated the workers has run force_close again and raised,
\* with the observation lock free
C19_Witness ==
    /\ Idle
    /\ outcome.fn = "get_obs"
    /\ outcome.kind = "raised"
    /\ outcome.err = "Fault"
    /\ ~hist.connected
    /\ hist.force_closes = 1
    /\ Closed
    /\ obs_lock = "free"

\* C20: the observation list changes only when connect() allocates it or the
\* comm worker writes an item; a step of get_obs() that raises nothing leaves
\* the list, the command queue and both workers' lifecycle states as they
\* were; the orchestrator holds the lock only while get_obs() reads the list,
\* and the step by which get_obs() returns leaves the lock free.
C20_GetObsReadOnly ==
    /\ current_obs = <<>>
    /\ obs_lock = "free"
    /\ [][/\ current_obs' # current_obs => (ConnectAlloc \/ CommWrite)
          /\ ((GetObsCheck \/ GetObsAcquire \/ GetObsRead) /\ outcome'.kind # "raised")
             => /\ UNCHANGED <<current_obs, actions_queue>>
                /\ comm_worker'.state = comm_worker.state
                /\ ctrl_worker'.state = ctrl_worker.state
          /\ (GetObsRead /\ Len(stack') < Len(stack)) => obs_lock' = "free"
          /\ obs_lock' = "env" => At("get_obs", "go_read")'
         ]_vars

\* C20 witness: a get_obs() on a connected orchestrator has returned; the lock
\* is free, the list holds the comm worker's readings and an action pushed
\* before the call is still on the command queue
C20_Witness ==
    /\ Idle
    /\ outcome.fn = "get_obs"
    /\ outcome.kind = "returned"
    /\ Connected
    /\ obs_lock = "free"
    /\ current_obs = <<1, 1>>
    /\ actions_queue # <<>>
====
